---- MODULE Spec2Model ----
(***************************************************************************)
(* Model of the temperature-anomaly dashboard prototypes:                  *)
(*   src/frontend/src/index.js  lines 1-415    first App  (SVG, 7 buckets)  *)
(*   src/frontend/src/index.js  lines 416-738  second App (SVG, 5 buckets)  *)
(*   src/unnamed/part_000                      third App  (canvas heatmap)  *)
(* The three Apps share the same state (data, loading, error,              *)
(* forecastHour), the same fetchData and the same controls; they differ in *)
(* how a received grid is turned into colours.                             *)
(***************************************************************************)
EXTENDS Integers, Sequences, FiniteSets, TLC

VARIABLES
    \* React state of App (index.js:5-8)
    data, loading, error, forecastHour,
    \* the mount effect of useEffect (index.js:30-33) has not run yet
    effectPending,
    \* every fetch started so far, in start order: hour and status
    requests,
    \* how many triggers of a fetch have occurred: the mount, each change of
    \* forecastHour, each click on Refresh
    triggers,
    \* output of the last run of the point pipeline, and which variant ran
    points, view,
    \* the pixel the heatmap effect wrote last (a sequence of at most one)
    pixels,
    \* classifier harness: two cell values, the statistics, and the results
    cval, cval2, cmin, cmax, cnorm, cbucket,
    \* longitude harness: a longitude and the results of normalising it
    \* once and twice
    nlon, nout,
    \* test page: position in testAPI, the text of #status, and whether the
    \* svg holds the title that drawSimpleMap appends last
    tpc, tstatus, ttitle

vars == << data, loading, error, forecastHour, effectPending, requests, triggers,
           points, view, pixels, cval, cval2, cmin, cmax, cnorm, cbucket, nlon, nout,
           tpc, tstatus, ttitle >>

uiVars == << data, loading, error, forecastHour, effectPending, requests, triggers >>
pipeVars == << points, view, pixels >>
clsVars == << cval, cval2, cmin, cmax, cnorm, cbucket, nlon, nout >>
testVars == << tpc, tstatus, ttitle >>

----------------------------------------------------------------------------
(* JavaScript numbers.  A finite number is an exact fraction n/d in lowest *)
(* terms with d > 0; Infinity is 1/0, -Infinity is -1/0; NaN is its own    *)
(* kind.  The inputs of the model are small integers, for which the exact  *)
(* quotient and the correctly rounded double compare alike against the     *)
(* decimal thresholds of the code.                                         *)

Abs(x) == IF x < 0 THEN -x ELSE x

RECURSIVE GCD(_, _)
GCD(a, b) == IF b = 0 THEN a ELSE GCD(b, a % b)

\* Least common multiple of two positive denominators.
LCM(a, b) == (a \div GCD(a, b)) * b

Rat(n, d) ==
    LET g == GCD(Abs(n), Abs(d))
        s == IF d < 0 THEN -1 ELSE 1
    IN  [k |-> "num", n |-> (s * n) \div g, d |-> (s * d) \div g]

Int2Num(i) == [k |-> "num", n |-> i, d |-> 1]
NaN == [k |-> "nan", n |-> 0, d |-> 0]
PInf == [k |-> "num", n |-> 1, d |-> 0]
NInf == [k |-> "num", n |-> -1, d |-> 0]
null == [k |-> "null", n |-> 0, d |-> 0]
undefined == [k |-> "undefined", n |-> 0, d |-> 0]
\* a JavaScript array value (a row of values, which JSON may also give as null)
JsArray(items) == [k |-> "array", items |-> items]
\* a JavaScript string value
JsString(s) == [k |-> "string", s |-> s]

IsFinite(a) == a.k = "num" /\ a.d # 0

\* ToNumber of the operands of an arithmetic operator: null is 0,
\* undefined is NaN.
ToNumber(a) ==
    IF a.k = "null" THEN Int2Num(0)
    ELSE IF a.k = "undefined" THEN NaN
    ELSE a

\* a - b
JsSub(a0, b0) ==
    LET a == ToNumber(a0)
        b == ToNumber(b0)
    IN  IF a.k = "nan" \/ b.k = "nan" THEN NaN
        ELSE IF IsFinite(a) /\ IsFinite(b)
             THEN Rat(a.n * (LCM(a.d, b.d) \div a.d) - b.n * (LCM(a.d, b.d) \div b.d),
                      LCM(a.d, b.d))
        ELSE IF ~IsFinite(a) /\ ~IsFinite(b) THEN (IF a.n = b.n THEN NaN ELSE a)
        ELSE IF ~IsFinite(a) THEN a
        ELSE (IF b.n > 0 THEN NInf ELSE PInf)

\* a + b
JsAdd(a0, b0) == JsSub(a0, JsSub(Int2Num(0), b0))

Sign(x) == IF x > 0 THEN 1 ELSE IF x < 0 THEN -1 ELSE 0

\* a / b  (x/0 is +-Infinity, 0/0 is NaN)
JsDiv(a0, b0) ==
    LET a == ToNumber(a0)
        b == ToNumber(b0)
    IN  IF a.k = "nan" \/ b.k = "nan" THEN NaN
        ELSE IF IsFinite(a) /\ IsFinite(b) THEN
            IF b.n = 0
            THEN (IF a.n = 0 THEN NaN ELSE IF a.n > 0 THEN PInf ELSE NInf)
            ELSE Rat(a.n * b.d, a.d * b.n)
        ELSE IF ~IsFinite(a) /\ ~IsFinite(b) THEN NaN
        ELSE IF ~IsFinite(a) THEN (IF Sign(a.n) * Sign(b.n) >= 0 THEN PInf ELSE NInf)
        ELSE Int2Num(0)

\* a * b
JsMul(a0, b0) ==
    LET a == ToNumber(a0)
        b == ToNumber(b0)
    IN  IF a.k = "nan" \/ b.k = "nan" THEN NaN
        ELSE IF IsFinite(a) /\ IsFinite(b) THEN Rat(a.n * b.n, a.d * b.d)
        ELSE IF Sign(a.n) * Sign(b.n) = 0 THEN NaN
        ELSE IF Sign(a.n) * Sign(b.n) > 0 THEN PInf ELSE NInf

\* a < b : false whenever an operand is NaN
JsLt(a0, b0) ==
    LET a == ToNumber(a0)
        b == ToNumber(b0)
    IN  IF a.k = "nan" \/ b.k = "nan" THEN FALSE
        ELSE IF IsFinite(a) /\ IsFinite(b)
             THEN a.n * (LCM(a.d, b.d) \div a.d) < b.n * (LCM(a.d, b.d) \div b.d)
        ELSE IF ~IsFinite(a) /\ ~IsFinite(b) THEN a.n < b.n
        ELSE IF ~IsFinite(a) THEN a.n < 0
        ELSE b.n > 0

JsGt(a, b) == JsLt(b, a)
JsLe(a0, b0) ==
    LET a == ToNumber(a0)
        b == ToNumber(b0)
    IN  a.k # "nan" /\ b.k # "nan" /\ ~JsLt(b, a)
JsGe(a, b) == JsLe(b, a)

----------------------------------------------------------------------------
(* Colour classification.                                                  *)

\* Bounds of the classifier inputs: cell values and statistics range over
\* -MaxAnom..MaxAnom, and over a percent scale 0..100 widened by Pad.
MaxAnom == 5
Pad == 20

\* const normalized = (values[i][j] - min_anomaly) / (max_anomaly - min_anomaly);
normalized_swapped(value, min_anomaly, max_anomaly) ==
    JsDiv(JsSub(value, max_anomaly), JsSub(max_anomaly, min_anomaly))

normalized(value, min_anomaly, max_anomaly) ==
    JsDiv(JsSub(value, min_anomaly), JsSub(max_anomaly, min_anomaly))

\* First App: the seven-branch if/else chain, colour and size.
classifyV1_swapped(n) ==
    IF JsLt(n, Rat(1, 10)) THEN [color |-> "#1a237e", size |-> 5]
    ELSE IF JsLt(n, Rat(3, 10)) THEN [color |-> "#3949ab", size |-> 4]
    ELSE IF JsLt(n, Rat(4, 10)) THEN [color |-> "#fff176", size |-> 3]
    ELSE IF JsLt(n, Rat(6, 10)) THEN [color |-> "#90caf9", size |-> 2]
    ELSE IF JsLt(n, Rat(7, 10)) THEN [color |-> "#5e35b1", size |-> 3]
    ELSE IF JsLt(n, Rat(9, 10)) THEN [color |-> "#ff9800", size |-> 4]
    ELSE [color |-> "#d32f2f", size |-> 5]

classifyV1(n) ==
    IF JsLt(n, Rat(1, 10)) THEN [color |-> "#1a237e", size |-> 5]
    ELSE IF JsLt(n, Rat(3, 10)) THEN [color |-> "#3949ab", size |-> 4]
    ELSE IF JsLt(n, Rat(4, 10)) THEN [color |-> "#5e35b1", size |-> 3]
    ELSE IF JsLt(n, Rat(6, 10)) THEN [color |-> "#90caf9", size |-> 2]
    ELSE IF JsLt(n, Rat(7, 10)) THEN [color |-> "#fff176", size |-> 3]
    ELSE IF JsLt(n, Rat(9, 10)) THEN [color |-> "#ff9800", size |-> 4]
    ELSE [color |-> "#d32f2f", size |-> 5]

\* Second App: default colour, then < 0.2, < 0.4, > 0.8, > 0.6.
classifyV2(n) ==
    IF JsLt(n, Rat(2, 10)) THEN "#313695"
    ELSE IF JsLt(n, Rat(4, 10)) THEN "#4575b4"
    ELSE IF JsGt(n, Rat(8, 10)) THEN "#d73027"
    ELSE IF JsGt(n, Rat(6, 10)) THEN "#fee090"
    ELSE "#abd9e9"

\* Third App: getTemperatureColor closes over min_anomaly and max_anomaly.
getTemperatureColor(value, min_anomaly, max_anomaly) ==
    LET n == normalized(value, min_anomaly, max_anomaly)
    IN  IF JsLt(n, Rat(2, 10)) THEN << 25, 55, 126 >>
        ELSE IF JsLt(n, Rat(4, 10)) THEN << 57, 117, 180 >>
        ELSE IF JsLt(n, Rat(6, 10)) THEN << 144, 202, 249 >>
        ELSE IF JsLt(n, Rat(8, 10)) THEN << 255, 152, 0 >>
        ELSE << 211, 47, 47 >>

\* Position of a colour on the cold-to-hot scale of its App (0 = coldest).
Index(seq, x) == CHOOSE i \in 1..Len(seq) : seq[i] = x

ScaleV1 == << "#1a237e", "#3949ab", "#5e35b1", "#90caf9", "#fff176", "#ff9800", "#d32f2f" >>
ScaleV2 == << "#313695", "#4575b4", "#abd9e9", "#fee090", "#d73027" >>
ScaleCanvas == << << 25, 55, 126 >>, << 57, 117, 180 >>, << 144, 202, 249 >>,
                  << 255, 152, 0 >>, << 211, 47, 47 >> >>

BucketV1(color) == Index(ScaleV1, color) - 1
BucketV2(color) == Index(ScaleV2, color) - 1
BucketCanvas(rgb) == Index(ScaleCanvas, rgb) - 1

\* The classifier harness: two cell values under one pair of statistics.
AnomRange == (0 - MaxAnom)..MaxAnom
PercentRange == (0 - Pad)..(100 + Pad)

ClassifyInputs ==
    { << v, w, mn, mx >> : v \in AnomRange, w \in AnomRange, mn \in AnomRange, mx \in AnomRange }
    \cup { << v, w, 0, 100 >> : v \in PercentRange, w \in PercentRange }

UiIdle ==
    /\ data = null
    /\ loading = FALSE
    /\ error = null
    /\ forecastHour = 0
    /\ effectPending = FALSE
    /\ requests = << >>
    /\ triggers = 0

PipeIdle ==
    /\ points = << >>
    /\ view = "none"
    /\ pixels = << >>

ClsIdle ==
    /\ cval = 0 /\ cval2 = 0 /\ cmin = 0 /\ cmax = 0
    /\ cnorm = << >>
    /\ cbucket = << >>
    /\ nlon = 0
    /\ nout = << >>

\* The text of #status: 'Error: ' + error.message has the prefix 'Error: ',
\* the fixed texts have none.
StatusText(prefix, message) == [ prefix |-> prefix, message |-> message ]

\* <div id="status">Loading...</div>, an empty svg, testAPI not yet called.
TestIdle ==
    /\ tpc = "idle"
    /\ tstatus = StatusText("", "Loading...")
    /\ ttitle = FALSE

InitClassify ==
    /\ UiIdle
    /\ PipeIdle
    /\ \E t \in ClassifyInputs :
         /\ cval = t[1] /\ cval2 = t[2] /\ cmin = t[3] /\ cmax = t[4]
    /\ cnorm = << >>
    /\ cbucket = << >>
    /\ nlon = 0
    /\ nout = << >>
    /\ TestIdle

BucketsOf(value, min_anomaly, max_anomaly) ==
    LET n == normalized(Int2Num(value), Int2Num(min_anomaly), Int2Num(max_anomaly))
    IN  [ v1 |-> BucketV1(classifyV1(n).color),
          v2 |-> BucketV2(classifyV2(n)),
          canvas |-> BucketCanvas(getTemperatureColor(Int2Num(value), Int2Num(min_anomaly),
                                                      Int2Num(max_anomaly))) ]

Classify ==
    /\ cbucket = << >>
    /\ cnorm' = << normalized(Int2Num(cval), Int2Num(cmin), Int2Num(cmax)),
                   normalized(Int2Num(cval2), Int2Num(cmin), Int2Num(cmax)) >>
    /\ cbucket' = << BucketsOf(cval, cmin, cmax), BucketsOf(cval2, cmin, cmax) >>
    /\ UNCHANGED << cval, cval2, cmin, cmax, nlon, nout >>
    /\ UNCHANGED uiVars
    /\ UNCHANGED pipeVars
    /\ UNCHANGED testVars

NextClassify == Classify

SpecClassify == InitClassify /\ [][NextClassify]_vars

Classified == cbucket # << >>

----------------------------------------------------------------------------
(* Longitude normalisation (specification 4.1): a grid in the 0-360        *)
(* convention is brought to -180..180 before the region filter.            *)

\* Largest longitude, in whole degrees, the harness feeds.
MaxLongitude == 600

LongitudeInputs == (0 - 180)..MaxLongitude

\* A normalisation that takes 360 for the wrap threshold.
normalizeLongitude_late(lon) == IF lon > 360 THEN lon - 360 ELSE lon

\* normalizeLongitude(lon) = lon - 360 if lon > 180, else lon
normalizeLongitude(lon) == IF lon > 180 THEN lon - 360 ELSE lon

InitLongitude ==
    /\ UiIdle
    /\ PipeIdle
    /\ cval = 0 /\ cval2 = 0 /\ cmin = 0 /\ cmax = 0
    /\ cnorm = << >>
    /\ cbucket = << >>
    /\ nlon \in LongitudeInputs
    /\ nout = << >>
    /\ TestIdle

\* One more application: to the input first, then to the last result.
NormalizeLongitude ==
    /\ Len(nout) < 2
    /\ nout' = Append(nout, normalizeLongitude(IF nout = << >> THEN nlon ELSE nout[Len(nout)]))
    /\ UNCHANGED << cval, cval2, cmin, cmax, cnorm, cbucket, nlon >>
    /\ UNCHANGED uiVars
    /\ UNCHANGED pipeVars
    /\ UNCHANGED testVars

NextLongitude == NormalizeLongitude

SpecLongitude == InitLongitude /\ [][NextLongitude]_vars

----------------------------------------------------------------------------
(* The page: state, fetchData, the effect and the controls.  The code is   *)
(* the same in the three Apps.                                             *)

\* Number of fetches one behaviour may start.
MaxRequests == 3

\* Options with an hour the backend does not serve.
SelectOptions_extra == { 0, 6, 12, 24, 36, 48, 72, 120 }

\* <option value={...}> of the forecast-hour <select>
SelectOptions == { 0, 6, 12, 24, 48, 72, 120 }

\* Statuses the backend may answer with when the response is not ok.
HttpFailures == { 404, 500 }

\* `HTTP error! status: ${response.status}`
HttpErrorMessage(status) ==
    CASE status = 404 -> "HTTP error! status: 404"
      [] status = 500 -> "HTTP error! status: 500"

\* How a request can end: response.ok and a JSON body; a non-2xx status;
\* a body response.json() rejects; fetch itself rejecting.
Failures == [status : {"http"}, code : HttpFailures]
            \cup { [status |-> "json", code |-> 200], [status |-> "net", code |-> 0] }

\* err.message caught in fetchData
ErrorMessage(f) ==
    CASE f.status = "http" -> HttpErrorMessage(f.code)
      [] f.status = "json" -> "Unexpected token < in JSON at position 0"
      [] f.status = "net" -> "Failed to fetch"

\* The grid the backend serves in the page runs: the 2 x 2 grid with one
\* null cell.
PageAnomalyData ==
    [ lats |-> << 50, 40 >>, lons |-> << 0 - 100, 0 - 90 >>,
      values |-> << JsArray(<< Int2Num(2), Int2Num(0 - 3) >>),
                    JsArray(<< null, Int2Num(5) >>) >> ]

PageStatistics == [ min_anomaly |-> Int2Num(0 - 3), max_anomaly |-> Int2Num(5) ]

\* The JSON body answering forecast_hour = hour: valid_time stands for the
\* time the grid is valid at, which the forecast hour determines.
Body(hour) ==
    [ valid_time |-> hour, anomaly_data |-> PageAnomalyData, statistics |-> PageStatistics ]

InFlight == { i \in 1..Len(requests) : requests[i].status = "pending" }

\* fetchData up to its first await: setLoading(true); setError(null); fetch(...)
Started(reqs, hour) == Append(reqs, [hour |-> hour, status |-> "pending", code |-> 0])

\* The requests after a handler that re-renders: React runs an effect that is
\* still pending before it renders again, so the mount effect's fetchData
\* (with the forecastHour of the first render) starts here if it has not yet.
Flushed(reqs) == IF effectPending THEN Started(reqs, forecastHour) ELSE reqs

Init ==
    /\ data = null
    /\ loading = FALSE
    /\ error = null
    /\ forecastHour = 0
    /\ effectPending = TRUE
    /\ requests = << >>
    /\ triggers = 1
    /\ PipeIdle
    /\ ClsIdle
    /\ TestIdle

\* useEffect(() => { fetchData(forecastHour) }, [forecastHour]) after the
\* first render: a passive effect, run after the page (with loading false
\* and the controls enabled) has been committed.
MountEffect ==
    /\ effectPending
    /\ effectPending' = FALSE
    /\ loading' = TRUE
    /\ error' = null
    /\ requests' = Started(requests, forecastHour)
    /\ UNCHANGED << data, forecastHour, triggers >>
    /\ UNCHANGED pipeVars
    /\ UNCHANGED clsVars
    /\ UNCHANGED testVars

\* <select onChange={(e) => setForecastHour(parseInt(e.target.value))}
\* disabled={loading}>: the new forecastHour re-renders and, forecastHour
\* being the effect's dependency, the effect calls fetchData(hour).
SelectHour(hour) ==
    /\ ~loading
    /\ hour # forecastHour
    /\ Len(Flushed(requests)) < MaxRequests
    /\ forecastHour' = hour
    /\ effectPending' = FALSE
    /\ loading' = TRUE
    /\ error' = null
    /\ requests' = Started(Flushed(requests), hour)
    /\ triggers' = triggers + 1
    /\ UNCHANGED data
    /\ UNCHANGED pipeVars
    /\ UNCHANGED clsVars
    /\ UNCHANGED testVars

\* <button onClick={() => fetchData(forecastHour)} disabled={loading}>
Refresh ==
    /\ ~loading
    /\ Len(Flushed(requests)) < MaxRequests
    /\ effectPending' = FALSE
    /\ loading' = TRUE
    /\ error' = null
    /\ requests' = Flushed(Started(requests, forecastHour))
    /\ triggers' = triggers + 1
    /\ UNCHANGED << data, forecastHour >>
    /\ UNCHANGED pipeVars
    /\ UNCHANGED clsVars
    /\ UNCHANGED testVars

\* fetchData after its awaits, response.ok and response.json() resolved:
\* setData(result), then finally setLoading(false).
FetchResolved(i) ==
    /\ i \in InFlight
    /\ requests' = [requests EXCEPT ![i].status = "ok", ![i].code = 200]
    /\ data' = Body(requests[i].hour)
    /\ loading' = FALSE
    /\ UNCHANGED << error, forecastHour, effectPending, triggers >>
    /\ UNCHANGED pipeVars
    /\ UNCHANGED clsVars
    /\ UNCHANGED testVars

\* A variant of FetchRejected without the catch block: the failure leaves
\* fetchData uncaught, only finally runs.
FetchRejected_uncaught(i, f) ==
    /\ i \in InFlight
    /\ requests' = [requests EXCEPT ![i].status = f.status, ![i].code = f.code]
    /\ loading' = FALSE
    /\ UNCHANGED << data, error, forecastHour, effectPending, triggers >>
    /\ UNCHANGED pipeVars
    /\ UNCHANGED clsVars
    /\ UNCHANGED testVars

\* A variant of FetchRejected whose catch block calls fetchData again.
FetchRejected_retry(i, f) ==
    /\ i \in InFlight
    /\ requests' =
          LET failed == [requests EXCEPT ![i].status = f.status, ![i].code = f.code]
          IN  IF Len(failed) < MaxRequests THEN Started(failed, requests[i].hour) ELSE failed
    /\ error' = JsString(ErrorMessage(f))
    /\ loading' = (Len(requests) < MaxRequests)
    /\ UNCHANGED << data, forecastHour, effectPending, triggers >>
    /\ UNCHANGED pipeVars
    /\ UNCHANGED clsVars
    /\ UNCHANGED testVars

\* fetchData when fetch rejects, !response.ok throws or response.json()
\* rejects: catch (err) { setError(err.message) } finally { setLoading(false) }
FetchRejected(i, f) ==
    /\ i \in InFlight
    /\ requests' = [requests EXCEPT ![i].status = f.status, ![i].code = f.code]
    /\ error' = JsString(ErrorMessage(f))
    /\ loading' = FALSE
    /\ UNCHANGED << data, forecastHour, effectPending, triggers >>
    /\ UNCHANGED pipeVars
    /\ UNCHANGED clsVars
    /\ UNCHANGED testVars

Next ==
    \/ MountEffect
    \/ \E hour \in SelectOptions : SelectHour(hour)
    \/ Refresh
    \/ \E i \in 1..MaxRequests : FetchResolved(i)
    \/ \E i \in 1..MaxRequests : \E f \in Failures : FetchRejected(i, f)

Spec == Init /\ [][Next]_vars

\* What App renders (the JSX conditions).
BannerRendered == data # null
SpinnerRendered == loading
ErrorRendered == error # null
MapRendered == data # null /\ ~loading

----------------------------------------------------------------------------
(* The point pipeline: createNorthAmericaMapPoints of the first and of the *)
(* second App.                                                             *)

\* North America bounds: 15N to 85N, 170W to 50W
minLat == 15
maxLat == 85
minLon == -170
maxLon == -50

\* values[i] and values[i][j] with JavaScript's 0-based indices: an index
\* past the end reads undefined.
RowAt(values, i) == IF i < Len(values) THEN values[i + 1] ELSE undefined
CellAt(values, i, j) ==
    LET row == RowAt(values, i)
    IN  IF row.k = "array" /\ j < Len(row.items) THEN row.items[j + 1] ELSE undefined

\* if (values[i] && values[i][j] !== undefined)
HasData(values, i, j) ==
    /\ RowAt(values, i).k = "array"
    /\ CellAt(values, i, j) # undefined

\* A region test that forgets the longitude.
InRegion_latOnly(lat, lon) ==
    lat >= minLat /\ lat <= maxLat

\* A region test with the boundary left out.
InRegion_strict(lat, lon) ==
    lat > minLat /\ lat < maxLat /\ lon > minLon /\ lon < maxLon

\* if (lat >= minLat && lat <= maxLat && lon >= minLon && lon <= maxLon)
InRegion(lat, lon) ==
    lat >= minLat /\ lat <= maxLat /\ lon >= minLon /\ lon <= maxLon

\* const x = ((lon - minLon) / (maxLon - minLon)) * width;
mapX(lon, width) ==
    JsMul(JsDiv(JsSub(Int2Num(lon), Int2Num(minLon)),
                JsSub(Int2Num(maxLon), Int2Num(minLon))), Int2Num(width))

\* A y that grows with latitude (north at the bottom).
mapY_unflipped(lat, height) ==
    JsMul(JsDiv(JsSub(Int2Num(lat), Int2Num(minLat)),
                JsSub(Int2Num(maxLat), Int2Num(minLat))), Int2Num(height))

\* const y = ((maxLat - lat) / (maxLat - minLat)) * height;
mapY(lat, height) ==
    JsMul(JsDiv(JsSub(Int2Num(maxLat), Int2Num(lat)),
                JsSub(Int2Num(maxLat), Int2Num(minLat))), Int2Num(height))

\* First App: every 8th row and column, an 800 x 500 view.
Step1 == 8
Width1 == 800
Height1 == 500

\* Second App: every 2nd row and column, a 900 x 600 view.
Step2 == 2
Width2 == 900
Height2 == 600

\* The body of the first App's inner loop for cell (i, j): the points
\* after the cell.
VisitV1(d, i, j, acc) ==
    LET lat == d.anomaly_data.lats[i + 1]
        lon == d.anomaly_data.lons[j + 1]
        values == d.anomaly_data.values
        n == normalized(CellAt(values, i, j), d.statistics.min_anomaly,
                        d.statistics.max_anomaly)
        c == classifyV1(n)
    IN  IF InRegion(lat, lon) /\ HasData(values, i, j)
        THEN Append(acc, [ x |-> mapX(lon, Width1), y |-> mapY(lat, Height1),
                           color |-> c.color, size |-> c.size,
                           value |-> CellAt(values, i, j), lat |-> lat, lon |-> lon ])
        ELSE acc

\* The loops of the first App nested the other way: columns outside.
RECURSIVE LoopV1_columnsFirst(_, _, _, _)
LoopV1_columnsFirst(d, i, j, acc) ==
    IF j >= Len(d.anomaly_data.lons) THEN acc
    ELSE IF i >= Len(d.anomaly_data.lats) THEN LoopV1_columnsFirst(d, 0, j + Step1, acc)
    ELSE LoopV1_columnsFirst(d, i + Step1, j, VisitV1(d, i, j, acc))

RECURSIVE LoopV1(_, _, _, _)
LoopV1(d, i, j, acc) ==
    IF i >= Len(d.anomaly_data.lats) THEN acc
    ELSE IF j >= Len(d.anomaly_data.lons) THEN LoopV1(d, i + Step1, 0, acc)
    ELSE LoopV1(d, i, j + Step1, VisitV1(d, i, j, acc))

\* createNorthAmericaMapPoints of the first App
createNorthAmericaMapPoints(d) ==
    IF d = null \/ d.anomaly_data = undefined THEN << >>
    ELSE LoopV1(d, 0, 0, << >>)

\* The body of the second App's inner loop for cell (i, j).
VisitV2(d, i, j, acc) ==
    LET lat == d.anomaly_data.lats[i + 1]
        lon == d.anomaly_data.lons[j + 1]
        values == d.anomaly_data.values
        n == normalized(CellAt(values, i, j), d.statistics.min_anomaly,
                        d.statistics.max_anomaly)
    IN  IF InRegion(lat, lon) /\ HasData(values, i, j)
        THEN Append(acc, [ x |-> mapX(lon, Width2), y |-> mapY(lat, Height2),
                           color |-> classifyV2(n),
                           value |-> CellAt(values, i, j), lat |-> lat, lon |-> lon ])
        ELSE acc

RECURSIVE LoopV2(_, _, _, _)
LoopV2(d, i, j, acc) ==
    IF i >= Len(d.anomaly_data.lats) THEN acc
    ELSE IF j >= Len(d.anomaly_data.lons) THEN LoopV2(d, i + Step2, 0, acc)
    ELSE LoopV2(d, i, j + Step2, VisitV2(d, i, j, acc))

\* createNorthAmericaMapPoints of the second App
createNorthAmericaMapPoints2(d) ==
    IF d = null \/ d.anomaly_data = undefined THEN << >>
    ELSE LoopV2(d, 0, 0, << >>)

----------------------------------------------------------------------------
(* Runs of the point pipeline on received grids.                           *)

\* Bounds of the grids: the longest axis, and the longest run of cell
\* values repeated along a grid in row-major order.
MaxSide == 9
MaxPalette == 2

Sides == { 1, 2, MaxSide }

\* (first latitude, first longitude): inside the region, on each edge and
\* corner of it, just outside it, and a longitude in the 0-360 convention.
Origins ==
    { << 50, 0 - 100 >>, << 85, 0 - 170 >>, << 15, 0 - 50 >>, << 50, 260 >> }
    \cup { << l, 0 - 100 >> : l \in { 14, 15, 85, 86 } }
    \cup { << 50, m >> : m \in { 0 - 171, 0 - 170, 0 - 50, 0 - 49 } }

\* A cell of the JSON body: a number or null.
CellValues == { null, Int2Num(0 - 3), Int2Num(2), Int2Num(5) }

Palettes == UNION { [1..n -> CellValues] : n \in 1..MaxPalette }

\* Shapes of values: as long as the axes; one row missing at the end; rows
\* one cell short; a null in place of the first row.
Shapes == { "full", "missingRow", "shortRows", "nullRow" }

\* (min_anomaly, max_anomaly): a proper range, a degenerate one and an
\* inverted one.
StatisticsChoices == { << 0 - 3, 5 >>, << 3, 3 >>, << 5, 0 - 3 >> }

\* A regular grid: latitudes descending by 5 degrees, longitudes ascending by
\* 15 degrees, cell values cycling through pal in row-major order.
GridOf(h, w, origin, pal, shape) ==
    LET nrows == IF shape = "missingRow" THEN h - 1 ELSE h
        ncols == IF shape = "shortRows" THEN w - 1 ELSE w
        row(i) == JsArray([ j \in 1..ncols |-> pal[(((i - 1) * w + (j - 1)) % Len(pal)) + 1] ])
    IN  [ lats |-> [ i \in 1..h |-> origin[1] - 5 * (i - 1) ],
          lons |-> [ j \in 1..w |-> origin[2] + 15 * (j - 1) ],
          values |-> [ i \in 1..nrows |-> IF shape = "nullRow" /\ i = 1 THEN null ELSE row(i) ] ]

\* A JSON body that has no anomaly_data member.
BodyWithoutGrid ==
    [ valid_time |-> 0, anomaly_data |-> undefined, statistics |-> PageStatistics ]

PipelineBodies ==
    { [ valid_time |-> 0,
        anomaly_data |-> GridOf(h, w, o, pal, shape),
        statistics |-> [ min_anomaly |-> Int2Num(st[1]), max_anomaly |-> Int2Num(st[2]) ] ] :
        h \in Sides, w \in Sides, o \in Origins, pal \in Palettes,
        shape \in Shapes, st \in StatisticsChoices }
    \cup { Body(0), null, BodyWithoutGrid }

\* The page after its first fetch has succeeded with one of the bodies.
InitPipeline ==
    /\ data \in PipelineBodies
    /\ loading = FALSE
    /\ error = null
    /\ forecastHour = 0
    /\ effectPending = FALSE
    /\ requests = << [hour |-> 0, status |-> "ok", code |-> 200] >>
    /\ triggers = 1
    /\ PipeIdle
    /\ ClsIdle
    /\ TestIdle

\* A render whose points array outlives the call and is never cleared.
RenderV1_accumulating ==
    /\ points' = points \o createNorthAmericaMapPoints(data)
    /\ view' = "v1"
    /\ pixels' = pixels
    /\ UNCHANGED uiVars
    /\ UNCHANGED clsVars
    /\ UNCHANGED testVars

\* const points = createNorthAmericaMapPoints();  in a render of the first App
RenderV1 ==
    /\ points' = createNorthAmericaMapPoints(data)
    /\ view' = "v1"
    /\ pixels' = pixels
    /\ UNCHANGED uiVars
    /\ UNCHANGED clsVars
    /\ UNCHANGED testVars

\* A render that normalises the longitudes of the response in place.
RenderV2_inplace ==
    /\ points' = createNorthAmericaMapPoints2(data)
    /\ view' = "v2"
    /\ pixels' = pixels
    /\ data' = IF data = null \/ data.anomaly_data = undefined THEN data
               ELSE [ data EXCEPT !.anomaly_data.lons =
                        [ j \in 1..Len(@) |-> normalizeLongitude(@[j]) ] ]
    /\ UNCHANGED << loading, error, forecastHour, effectPending, requests, triggers >>
    /\ UNCHANGED clsVars
    /\ UNCHANGED testVars

\* const points = createNorthAmericaMapPoints();  in a render of the second App
RenderV2 ==
    /\ points' = createNorthAmericaMapPoints2(data)
    /\ view' = "v2"
    /\ pixels' = pixels
    /\ UNCHANGED uiVars
    /\ UNCHANGED clsVars
    /\ UNCHANGED testVars

NextPipeline == RenderV1 \/ RenderV2

SpecPipeline == InitPipeline /\ [][NextPipeline]_vars

\* Grids long enough for the first App to visit three rows and columns.
StrideSides == { 1, 2, MaxSide, 2 * MaxSide - 1 }

StrideOrigins == { << 85, 0 - 170 >>, << 50, 0 - 100 >> }

StrideBodies ==
    { [ valid_time |-> 0,
        anomaly_data |-> GridOf(h, w, o, pal, shape),
        statistics |-> PageStatistics ] :
        h \in StrideSides, w \in StrideSides, o \in StrideOrigins, pal \in Palettes,
        shape \in Shapes }

\* The page after its first fetch has succeeded with one of the long grids.
InitStride ==
    /\ data \in StrideBodies
    /\ loading = FALSE
    /\ error = null
    /\ forecastHour = 0
    /\ effectPending = FALSE
    /\ requests = << [hour |-> 0, status |-> "ok", code |-> 200] >>
    /\ triggers = 1
    /\ PipeIdle
    /\ ClsIdle
    /\ TestIdle

SpecStride == InitStride /\ [][NextPipeline]_vars

----------------------------------------------------------------------------
(* The canvas heatmap of the third App and the grid of the test page.      *)

\* canvas.width = 900; canvas.height = 600;
CanvasWidth == 900
CanvasHeight == 600

\* const lon = minLon + (x / canvas.width) * (maxLon - minLon);
pixelLon(x) ==
    JsAdd(Int2Num(minLon),
          JsMul(JsDiv(Int2Num(x), Int2Num(CanvasWidth)),
                JsSub(Int2Num(maxLon), Int2Num(minLon))))

\* const lat = maxLat - (y / canvas.height) * (maxLat - minLat);
pixelLat(y) ==
    JsSub(Int2Num(maxLat),
          JsMul(JsDiv(Int2Num(y), Int2Num(CanvasHeight)),
                JsSub(Int2Num(maxLat), Int2Num(minLat))))

\* Math.pow(lat - lats[i], 2) + Math.pow(lon - lons[j], 2): the square of
\* distance.  Math.sqrt is increasing, so the squares compare as the
\* distances do.
distance2(lat, lon, cellLat, cellLon) ==
    LET dlat == JsSub(lat, Int2Num(cellLat))
        dlon == JsSub(lon, Int2Num(cellLon))
    IN  JsAdd(JsMul(dlat, dlat), JsMul(dlon, dlon))

\* The body of the nearest-cell search for cell (i, j): a strictly smaller
\* distance replaces the closest value, whatever that value is.
NearestVisit(grid, lat, lon, i, j, best) ==
    LET dist == distance2(lat, lon, grid.lats[i + 1], grid.lons[j + 1])
    IN  IF HasData(grid.values, i, j) /\ JsLt(dist, best.minDistance)
        THEN [ minDistance |-> dist, closestValue |-> CellAt(grid.values, i, j) ]
        ELSE best

RECURSIVE NearestScan(_, _, _, _, _, _)
NearestScan(grid, lat, lon, i, j, best) ==
    IF i >= Len(grid.lats) THEN best
    ELSE IF j >= Len(grid.lons) THEN NearestScan(grid, lat, lon, i + 1, 0, best)
    ELSE NearestScan(grid, lat, lon, i, j + 1, NearestVisit(grid, lat, lon, i, j, best))

\* The four bytes written for pixel (x, y).
pixelColor(d, x, y) ==
    LET best == NearestScan(d.anomaly_data, pixelLat(y), pixelLon(x), 0, 0,
                            [ minDistance |-> PInf, closestValue |-> null ])
    IN  IF best.closestValue # null
        THEN getTemperatureColor(best.closestValue, d.statistics.min_anomaly,
                                 d.statistics.max_anomaly) \o << 180 >>
        ELSE << 240, 248, 255, 255 >>

\* Pixels (x, y) followed by the model: three corners and the centre.
SampledPixels == { << 0, 0 >>, << 899, 0 >>, << 450, 300 >>, << 899, 599 >> }

\* One iteration of the pixel loops of the heatmap effect.  The effect
\* returns at once without a grid or without a mounted canvas; iterations
\* share nothing but the image they write to, each at its own index.
HeatmapPixel(x, y) ==
    /\ pixels' = IF data = null \/ data.anomaly_data = undefined \/ ~MapRendered
                  THEN pixels
                  ELSE << [ x |-> x, y |-> y, rgba |-> pixelColor(data, x, y) ] >>
    /\ UNCHANGED << points, view >>
    /\ UNCHANGED uiVars
    /\ UNCHANGED clsVars
    /\ UNCHANGED testVars

\* Test page: an 800 x 600 svg.
SvgWidth == 800
SvgHeight == 600

\* d3.scaleSequential().domain([min, max]).interpolator(d3.interpolateRdBu):
\* the position on the ramp, clamped to 0..1 by the interpolator; the middle
\* of the ramp for a domain of one value; no colour for null.
colorScale(value, min_anomaly, max_anomaly) ==
    LET t == normalized(value, min_anomaly, max_anomaly)
    IN  IF value.k # "num" THEN undefined
        ELSE IF min_anomaly = max_anomaly THEN Rat(1, 2)
        ELSE IF JsLt(t, Int2Num(0)) THEN Int2Num(0)
        ELSE IF JsGt(t, Int2Num(1)) THEN Int2Num(1)
        ELSE t

\* The body of drawSimpleMap's inner loop for cell (i, j).
VisitRect(d, i, j, acc) ==
    LET values == d.anomaly_data.values
        cellWidth == JsDiv(Int2Num(SvgWidth), Int2Num(Len(d.anomaly_data.lons)))
        cellHeight == JsDiv(Int2Num(SvgHeight), Int2Num(Len(d.anomaly_data.lats)))
    IN  IF HasData(values, i, j)
        THEN Append(acc, [ x |-> JsMul(Int2Num(j), cellWidth),
                           y |-> JsMul(Int2Num(i), cellHeight),
                           width |-> cellWidth, height |-> cellHeight,
                           fill |-> colorScale(CellAt(values, i, j),
                                               d.statistics.min_anomaly,
                                               d.statistics.max_anomaly) ])
        ELSE acc

RECURSIVE LoopRects(_, _, _, _)
LoopRects(d, i, j, acc) ==
    IF i >= Len(d.anomaly_data.lats) THEN acc
    ELSE IF j >= Len(d.anomaly_data.lons) THEN LoopRects(d, i + 1, 0, acc)
    ELSE LoopRects(d, i, j + 1, VisitRect(d, i, j, acc))

\* drawSimpleMap throws a TypeError, after it has cleared the svg and before
\* it appends anything: destructuring a missing response or grid, or
\* reading values[i] of missing values in the first iteration.
drawSimpleMapThrows(d) ==
    \/ d = null
    \/ d.anomaly_data = undefined
    \/ /\ "values" \notin DOMAIN d.anomaly_data
       /\ Len(d.anomaly_data.lats) > 0
       /\ Len(d.anomaly_data.lons) > 0

\* drawSimpleMap(data): the rects of the svg.
drawSimpleMap(d) ==
    IF drawSimpleMapThrows(d) \/ "values" \notin DOMAIN d.anomaly_data THEN << >>
    ELSE LoopRects(d, 0, 0, << >>)

\* A run of drawSimpleMap on the response: the svg is cleared, the rects
\* are appended and, unless the run threw, the title after them.
DrawSimpleMap ==
    /\ points' = drawSimpleMap(data)
    /\ view' = "test"
    /\ ttitle' = ~drawSimpleMapThrows(data)
    /\ pixels' = pixels
    /\ UNCHANGED << tpc, tstatus >>
    /\ UNCHANGED uiVars
    /\ UNCHANGED clsVars

\* Grids small enough to follow every cell of the nearest-cell search.
RasterOrigins == { << 50, 0 - 100 >>, << 85, 0 - 170 >>, << 50, 260 >> }

RasterBodies ==
    { [ valid_time |-> 0,
        anomaly_data |-> GridOf(h, w, o, pal, shape),
        statistics |-> PageStatistics ] :
        h \in { 1, 2 }, w \in { 1, 2 }, o \in RasterOrigins, pal \in Palettes,
        shape \in Shapes }
    \cup { Body(0), null, BodyWithoutGrid }

\* A page after its first fetch has succeeded with one of the bodies.
InitRaster ==
    /\ data \in RasterBodies
    /\ loading = FALSE
    /\ error = null
    /\ forecastHour = 0
    /\ effectPending = FALSE
    /\ requests = << [hour |-> 0, status |-> "ok", code |-> 200] >>
    /\ triggers = 1
    /\ PipeIdle
    /\ ClsIdle
    /\ TestIdle

NextRaster ==
    \/ RenderV1
    \/ RenderV2
    \/ \E p \in SampledPixels : HeatmapPixel(p[1], p[2])
    \/ DrawSimpleMap

SpecRaster == InitRaster /\ [][NextRaster]_vars

----------------------------------------------------------------------------
(* The test page: testAPI runs once when the page has loaded.              *)

\* status.textContent = 'Data loaded successfully!'
SuccessStatus == StatusText("", "Data loaded successfully!")

\* status.textContent = 'Error: ' + error.message
ErrorStatus(message) == StatusText("Error: ", message)

\* The template of dataInfo.innerHTML throws a TypeError: it reads
\* data.source, data.anomaly_data.lats.length and calls toFixed on
\* data.statistics.min_anomaly and max_anomaly.
TemplateThrows(d) ==
    \/ d = null
    \/ d.anomaly_data = undefined
    \/ d.statistics.min_anomaly.k # "num"
    \/ d.statistics.max_anomaly.k # "num"

\* A body whose anomaly_data has no values member.
BodyWithoutValues ==
    [ valid_time |-> 0,
      anomaly_data |-> [ lats |-> << 50, 40 >>, lons |-> << 0 - 100, 0 - 90 >> ],
      statistics |-> PageStatistics ]

\* A body whose statistics are null (no finite value in the grid).
BodyNullStatistics ==
    [ valid_time |-> 0,
      anomaly_data |-> PageAnomalyData,
      statistics |-> [ min_anomaly |-> null, max_anomaly |-> null ] ]

\* Bodies the backend may answer the test page with.
TestBodies ==
    { [ valid_time |-> 0,
        anomaly_data |-> GridOf(h, w, << 50, 0 - 100 >>, pal, shape),
        statistics |-> PageStatistics ] :
        h \in { 1, 2, 3 }, w \in { 1, 2, 3 }, pal \in Palettes, shape \in Shapes }
    \cup { Body(0), null, BodyWithoutGrid, BodyWithoutValues, BodyNullStatistics }

InitTestPage ==
    /\ UiIdle
    /\ PipeIdle
    /\ ClsIdle
    /\ TestIdle

\* testAPI up to its first await: status.textContent = 'Fetching data...';
\* fetch('...?forecast_hour=0&use_mock=true')
TestStart ==
    /\ tpc = "idle"
    /\ tpc' = "fetching"
    /\ tstatus' = StatusText("", "Fetching data...")
    /\ requests' = Started(requests, 0)
    /\ triggers' = triggers + 1
    /\ UNCHANGED << data, loading, error, forecastHour, effectPending >>
    /\ UNCHANGED ttitle
    /\ UNCHANGED pipeVars
    /\ UNCHANGED clsVars

\* fetch rejects, or the response is not ok and testAPI throws:
\* catch (error) { status.textContent = 'Error: ' + error.message }
TestFetchFailed(f) ==
    /\ tpc = "fetching"
    /\ f.status \in { "net", "http" }
    /\ tpc' = "done"
    /\ tstatus' = ErrorStatus(ErrorMessage(f))
    /\ requests' = [requests EXCEPT ![1].status = f.status, ![1].code = f.code]
    /\ UNCHANGED << data, loading, error, forecastHour, effectPending, triggers >>
    /\ UNCHANGED ttitle
    /\ UNCHANGED pipeVars
    /\ UNCHANGED clsVars

\* The response is ok: testAPI awaits response.json().
TestResponseOk ==
    /\ tpc = "fetching"
    /\ tpc' = "parsing"
    /\ UNCHANGED tstatus
    /\ UNCHANGED ttitle
    /\ UNCHANGED uiVars
    /\ UNCHANGED pipeVars
    /\ UNCHANGED clsVars

\* response.json() rejects: the catch block.
TestJsonRejected(f) ==
    /\ tpc = "parsing"
    /\ f.status = "json"
    /\ tpc' = "done"
    /\ tstatus' = ErrorStatus(ErrorMessage(f))
    /\ requests' = [requests EXCEPT ![1].status = f.status, ![1].code = f.code]
    /\ UNCHANGED << data, loading, error, forecastHour, effectPending, triggers >>
    /\ UNCHANGED ttitle
    /\ UNCHANGED pipeVars
    /\ UNCHANGED clsVars

\* A run of the rest of testAPI in which drawSimpleMap is called outside
\* the try block: its exception does not reach the catch block.
TestParsed_drawUncaught(b) ==
    /\ tpc = "parsing"
    /\ tpc' = "done"
    /\ requests' = [requests EXCEPT ![1].status = "ok", ![1].code = 200]
    /\ data' = b
    /\ tstatus' = IF TemplateThrows(b) THEN ErrorStatus("TypeError") ELSE SuccessStatus
    /\ points' = IF TemplateThrows(b) THEN points ELSE drawSimpleMap(b)
    /\ view' = IF TemplateThrows(b) THEN view ELSE "test"
    /\ ttitle' = (~TemplateThrows(b) /\ ~drawSimpleMapThrows(b))
    /\ pixels' = pixels
    /\ UNCHANGED << loading, error, forecastHour, effectPending, triggers >>
    /\ UNCHANGED clsVars

\* response.json() resolves with b; the rest of testAPI runs without an
\* await: the success text, the data info, drawSimpleMap(data), and the
\* catch block for a TypeError thrown on the way.
TestParsed(b) ==
    /\ tpc = "parsing"
    /\ tpc' = "done"
    /\ requests' = [requests EXCEPT ![1].status = "ok", ![1].code = 200]
    /\ data' = b
    /\ tstatus' = IF TemplateThrows(b) \/ drawSimpleMapThrows(b)
                   THEN ErrorStatus("TypeError")
                   ELSE SuccessStatus
    /\ points' = IF TemplateThrows(b) THEN points ELSE drawSimpleMap(b)
    /\ view' = IF TemplateThrows(b) THEN view ELSE "test"
    /\ ttitle' = (~TemplateThrows(b) /\ ~drawSimpleMapThrows(b))
    /\ pixels' = pixels
    /\ UNCHANGED << loading, error, forecastHour, effectPending, triggers >>
    /\ UNCHANGED clsVars

NextTestPage ==
    \/ TestStart
    \/ \E f \in Failures : TestFetchFailed(f)
    \/ TestResponseOk
    \/ \E f \in Failures : TestJsonRejected(f)
    \/ \E b \in TestBodies : TestParsed(b)

SpecTestPage == InitTestPage /\ [][NextTestPage]_vars

----------------------------------------------------------------------------
(* Claims about the page (checked under Spec).                             *)

\* C1: last request wins.  Once no fetch is in flight and the fetch started
\* last has succeeded, the stored data is the response to that fetch's hour,
\* whatever the order in which overlapping responses arrived.
C1_LastRequestWins ==
    LET n == Len(requests)
    IN  (n > 0 /\ InFlight = {} /\ requests[n].status = "ok") =>
            (data # null /\ data.valid_time = requests[n].hour)

\* C2: whenever error is non-null, neither the map nor the data banner is
\* rendered.
C2_ErrorBlanksVisualization ==
    ErrorRendered => (~MapRendered /\ ~BannerRendered)

\* C3: a fetch that ends in a non-2xx status, an invalid JSON body or a
\* transport failure leaves error holding that failure's message string
\* ('HTTP error! status: <status>' for non-2xx), does not call setData, and
\* completes fetchData (loading is reset).
C3_FailureBecomesError ==
    [][ \A i \in InFlight :
          requests'[i].status \in {"http", "json", "net"} =>
              /\ error' = JsString(ErrorMessage(requests'[i]))
              /\ requests'[i].status = "http" =>
                    error' = JsString(HttpErrorMessage(requests'[i].code))
              /\ data' = data
              /\ loading' = FALSE ]_vars

C3_Witness ==
    /\ Len(requests) = 2
    /\ requests[1].status = "ok"
    /\ requests[2].status = "http" /\ requests[2].code = 500
    /\ error = JsString("HTTP error! status: 500")
    /\ data = Body(requests[1].hour)
    /\ ~loading

\* Hours the backend serves (specification, section 6).
SupportedHours == { 0, 6, 12, 24, 48, 72, 96, 120, 144, 168, 240, 384 }

\* C17: forecastHour is always one of the supported hours, every request
\* carries a supported hour, and fetchData is called with forecastHour: the
\* request started last carries the current forecastHour.
C17_RequestsCarrySupportedHour ==
    /\ forecastHour \in SupportedHours
    /\ \A i \in 1..Len(requests) : requests[i].hour \in SupportedHours
    /\ requests # << >> => requests[Len(requests)].hour = forecastHour

C17_Witness ==
    /\ Len(requests) = 3
    /\ requests[1].hour = 0 /\ requests[2].hour = 72 /\ requests[3].hour = 120
    /\ forecastHour = 120

\* C18: no internal retry.  Each trigger (the mount, a change of
\* forecastHour, a click on Refresh) has issued exactly one request, the
\* mount's once its effect has run; a failed request adds none.
C18_OneRequestPerTrigger ==
    Len(requests) + (IF effectPending THEN 1 ELSE 0) = triggers

C18_Witness ==
    /\ triggers = 2
    /\ Len(requests) = 2
    /\ requests[1].status = "net" /\ requests[2].status = "http"
    /\ InFlight = {}
    /\ ~loading

\* C22: whenever the data is rendered and loading is false, the data is the
\* response to a request for the forecastHour the label shows, also after a
\* fetch for a newly selected hour has failed.
C22_DisplayedDataMatchesHour ==
    MapRendered => data.valid_time = forecastHour

\* C23: loading is true exactly when at least one request is in flight
\* (set when a fetch starts, reset when it settles).
C23_LoadingIffInFlight ==
    loading <=> InFlight # {}

\* C24: at most one request is in flight at any time, whichever triggers
\* (mount effect, hour change, Refresh) started the fetches.
C24_SingleInFlight ==
    Cardinality(InFlight) <= 1

----------------------------------------------------------------------------
(* Claims about the point pipeline (checked under SpecPipeline; C21 under  *)
(* SpecStride).                                                            *)

Rendered == view # "none"

\* The response holds a grid.
HasGrid == data # null /\ data.anomaly_data # undefined

\* All cells of the received grid, as 0-based (i, j).
AllCells ==
    IF HasGrid
    THEN (0..(Len(data.anomaly_data.lats) - 1)) \X (0..(Len(data.anomaly_data.lons) - 1))
    ELSE {}

\* The cells the variant that rendered visits: both indices multiples of
\* its step (0-based).
VisitedCells ==
    LET step == IF view = "v1" THEN 8 ELSE 2
    IN  { c \in AllCells : c[1] % step = 0 /\ c[2] % step = 0 }

LatOf(c) == data.anomaly_data.lats[c[1] + 1]
LonOf(c) == data.anomaly_data.lons[c[2] + 1]
ValueOf(c) == CellAt(data.anomaly_data.values, c[1], c[2])

\* A point of the output came from cell c (the axes of a grid hold no
\* value twice, so latitude and longitude identify the cell).
Emitted(c) == \E k \in 1..Len(points) : points[k].lat = LatOf(c) /\ points[k].lon = LonOf(c)

\* isValidCell of the specification: the row exists, the cell is defined,
\* and it holds a number (not null, not NaN).
IsValidCell(c) ==
    /\ c[1] < Len(data.anomaly_data.values)
    /\ data.anomaly_data.values[c[1] + 1] # null
    /\ ValueOf(c) # undefined
    /\ ValueOf(c) # null
    /\ ValueOf(c) # NaN

InsideNorthAmerica(c) ==
    /\ 15 <= LatOf(c) /\ LatOf(c) <= 85
    /\ 0 - 170 <= LonOf(c) /\ LonOf(c) <= 0 - 50

\* C4: only valid cells yield a point: a cell whose row is missing or null,
\* or that is undefined, null or NaN, yields none (so a grid of nulls
\* yields no point at all).
C4_OnlyValidCellsEmit ==
    Rendered => \A c \in VisitedCells : Emitted(c) => IsValidCell(c)

\* C6: a visited cell outside lat [15, 85] x lon [-170, -50] yields no point;
\* a valid visited cell inside or on the boundary of the region yields one.
C6_RegionFilter ==
    Rendered =>
        \A c \in VisitedCells :
            /\ ~InsideNorthAmerica(c) => ~Emitted(c)
            /\ (InsideNorthAmerica(c) /\ IsValidCell(c)) => Emitted(c)

C6_Witness ==
    /\ view = "v2"
    /\ HasGrid
    /\ Len(data.anomaly_data.lons) = 9
    /\ LatOf(<< 0, 0 >>) = 85 /\ LonOf(<< 0, 0 >>) = 0 - 170
    /\ LonOf(<< 0, 8 >>) = 0 - 50
    /\ IsValidCell(<< 0, 0 >>) /\ Emitted(<< 0, 0 >>)
    /\ IsValidCell(<< 0, 8 >>) /\ Emitted(<< 0, 8 >>)

\* C7: every point has x = (lon + 170) / 120 * width and
\* y = (85 - lat) / 70 * height of a visited cell, within the view (800 x 500
\* in the first App, 900 x 600 in the second), and carries that cell's
\* latitude, longitude and value.
C7_PointGeometry ==
    Rendered =>
        LET width == IF view = "v1" THEN 800 ELSE 900
            height == IF view = "v1" THEN 500 ELSE 600
        IN  \A k \in 1..Len(points) :
                \E c \in VisitedCells :
                    /\ points[k].lat = LatOf(c)
                    /\ points[k].lon = LonOf(c)
                    /\ points[k].value = ValueOf(c)
                    /\ points[k].x = Rat((LonOf(c) + 170) * width, 120)
                    /\ points[k].y = Rat((85 - LatOf(c)) * height, 70)
                    /\ JsLe(Int2Num(0), points[k].x) /\ JsLe(points[k].x, Int2Num(width))
                    /\ JsLe(Int2Num(0), points[k].y) /\ JsLe(points[k].y, Int2Num(height))

C7_Witness ==
    /\ view = "v1"
    /\ Len(points) = 1
    /\ points[1].lat = 50 /\ points[1].lon = 0 - 100
    /\ points[1].x = Rat(1400, 3)
    /\ points[1].y = Int2Num(250)
    /\ points[1].value = Int2Num(2)

\* C11: for the grid lats [50, 40], lons [-100, -90], values
\* [[2, -3], [null, 5]] with statistics -3 .. 5, a run emits exactly three
\* points, one per non-null cell; the point of value -3 is in the coldest
\* bucket and the point of value 5 in the hottest.
C11_ScenarioYieldsThreePoints ==
    (Rendered /\ data = Body(0)) =>
        LET coldest == IF view = "v1" THEN "#1a237e" ELSE "#313695"
            hottest == IF view = "v1" THEN "#d32f2f" ELSE "#d73027"
        IN  /\ Len(points) = 3
            /\ \E k \in 1..Len(points) :
                   points[k].value = Int2Num(0 - 3) /\ points[k].color = coldest
            /\ \E k \in 1..Len(points) :
                   points[k].value = Int2Num(5) /\ points[k].color = hottest

\* validateShape of the specification: both axes non-empty, one row per
\* latitude, each row an array with one cell per longitude.
WellFormed(grid) ==
    /\ Len(grid.lats) > 0
    /\ Len(grid.lons) > 0
    /\ Len(grid.values) = Len(grid.lats)
    /\ \A i \in 1..Len(grid.values) :
           /\ grid.values[i].k = "array"
           /\ Len(grid.values[i].items) = Len(grid.lons)

\* C12: a run on a grid whose values do not match its axes (a row of another
\* length than lons, another number of rows than lats, an empty axis) is
\* aborted and renders nothing.
C12_MalformedGridRendersNothing ==
    (Rendered /\ HasGrid /\ ~WellFormed(data.anomaly_data)) => points = << >>

\* C13: a run on statistics with min_anomaly > max_anomaly is refused as a
\* configuration error and emits no point; no cell is classified with an
\* inverted range.
C13_InvertedRangeRendersNothing ==
    (Rendered /\ data # null
        /\ JsGt(data.statistics.min_anomaly, data.statistics.max_anomaly)) =>
            points = << >>

\* The visited cells that yield a point, read off the response alone.
EmittingCells ==
    { c \in VisitedCells :
        /\ InsideNorthAmerica(c)
        /\ c[1] < Len(data.anomaly_data.values)
        /\ data.anomaly_data.values[c[1] + 1] # null
        /\ ValueOf(c) # undefined }

\* The emitting cells visited before c, rows first.
Before(c) ==
    { e \in EmittingCells : e[1] < c[1] \/ (e[1] = c[1] /\ e[2] < c[2]) }

\* The point of cell c, read off the response alone.
PointOf(c) ==
    LET n == JsDiv(JsSub(ValueOf(c), data.statistics.min_anomaly),
                   JsSub(data.statistics.max_anomaly, data.statistics.min_anomaly))
    IN  IF view = "v1"
        THEN [ x |-> Rat((LonOf(c) + 170) * 800, 120), y |-> Rat((85 - LatOf(c)) * 500, 70),
               color |-> classifyV1(n).color, size |-> classifyV1(n).size,
               value |-> ValueOf(c), lat |-> LatOf(c), lon |-> LonOf(c) ]
        ELSE [ x |-> Rat((LonOf(c) + 170) * 900, 120), y |-> Rat((85 - LatOf(c)) * 600, 70),
               color |-> classifyV2(n),
               value |-> ValueOf(c), lat |-> LatOf(c), lon |-> LonOf(c) ]

NothingInRegion == \A c \in AllCells : ~InsideNorthAmerica(c)

CellOfPoint(k) ==
    CHOOSE c \in AllCells : LatOf(c) = points[k].lat /\ LonOf(c) = points[k].lon

CeilDiv(a, b) == (a + b - 1) \div b

\* C21: a cell yields at most one point; points come in row-major order
\* (each point's cell after the cell of the point before it, rows first); the cells with a point are exactly the
\* visited cells (indices multiples of 8, resp. 2) that are in the region
\* and pass the data check; there are at most ceil(H/step) * ceil(W/step).
C21_RowMajorOnePointPerVisitedCell ==
    (Rendered /\ HasGrid) =>
        LET step == IF view = "v1" THEN 8 ELSE 2
            H == Len(data.anomaly_data.lats)
            W == Len(data.anomaly_data.lons)
            cells == [ k \in 1..Len(points) |-> CellOfPoint(k) ]
        IN  /\ \A k \in 1..(Len(points) - 1) :
                   \/ cells[k][1] < cells[k + 1][1]
                   \/ /\ cells[k][1] = cells[k + 1][1]
                      /\ cells[k][2] < cells[k + 1][2]
            /\ \A c \in AllCells : Emitted(c) <=> c \in EmittingCells
            /\ Len(points) <= CeilDiv(H, step) * CeilDiv(W, step)

C21_Witness ==
    /\ view = "v1"
    /\ HasGrid
    /\ Len(data.anomaly_data.lats) = 9 /\ Len(data.anomaly_data.lons) = 17
    /\ Len(points) = 4
    /\ CellOfPoint(1) = << 0, 0 >> /\ CellOfPoint(2) = << 0, 8 >>
    /\ CellOfPoint(3) = << 8, 0 >> /\ CellOfPoint(4) = << 8, 8 >>

----------------------------------------------------------------------------
(* Claims about the runs of all four renderers (checked under SpecRaster). *)

\* C15: no run of createNorthAmericaMapPoints (either App), of the heatmap
\* effect or of drawSimpleMap writes to the response: data is the same
\* after every step.
C15_InputNeverWritten == [][data' = data]_vars

C15_Witness ==
    /\ data = Body(0)
    /\ view = "test" /\ Len(points) = 4
    /\ Len(pixels) = 1

\* Cells that hold a number.
DataCells == { c \in AllCells : IsValidCell(c) }

\* C16: the pixel (x, y) stands for lat = 85 - y/600 * 70 and
\* lon = -170 + x/900 * 120 and takes the bucket colour of the nearest cell
\* that holds a value; it takes the background colour only if no cell holds
\* a value.  A null cell never stands in for a farther cell with a value.
C16_NearestDataCellColours ==
    \A k \in 1..Len(pixels) :
        LET lat == Rat(85 * 600 - pixels[k].y * 70, 600)
            lon == Rat((0 - 170) * 900 + pixels[k].x * 120, 900)
            far(c) == JsAdd(JsMul(JsSub(lat, Int2Num(LatOf(c))), JsSub(lat, Int2Num(LatOf(c)))),
                            JsMul(JsSub(lon, Int2Num(LonOf(c))), JsSub(lon, Int2Num(LonOf(c)))))
            nearest == { c \in DataCells : \A e \in DataCells : JsLe(far(c), far(e)) }
        IN  IF DataCells = {}
            THEN pixels[k].rgba = << 240, 248, 255, 255 >>
            ELSE \E c \in nearest :
                    pixels[k].rgba =
                        getTemperatureColor(ValueOf(c), data.statistics.min_anomaly,
                                            data.statistics.max_anomaly) \o << 180 >>

----------------------------------------------------------------------------
(* Claims about longitude normalisation (checked under SpecLongitude).     *)

\* The statement as the specification has it: normalising twice equals
\* normalising once for every x, and a longitude of 0..360 lands in
\* -180..180.
C14_IdempotentForAllX ==
    /\ Len(nout) = 2 => nout[2] = nout[1]
    /\ (Len(nout) >= 1 /\ 0 <= nlon /\ nlon <= 360) =>
           (0 - 180 <= nout[1] /\ nout[1] <= 180)

\* C14: normalising twice equals normalising once for every x <= 540 (so
\* for every longitude of either convention), and a longitude of 0..360
\* lands in -180..180.
C14_IdempotentUpTo540 ==
    /\ (Len(nout) = 2 /\ nlon <= 540) => nout[2] = nout[1]
    /\ (Len(nout) >= 1 /\ 0 <= nlon /\ nlon <= 360) =>
           (0 - 180 <= nout[1] /\ nout[1] <= 180)

C14_Witness ==
    /\ nlon = 270
    /\ nout = << 0 - 90, 0 - 90 >>

----------------------------------------------------------------------------
(* Claims about the test page (checked under SpecTestPage).                *)

\* The cells drawSimpleMap draws: values[i] present, values[i][j] defined.
DrawnCells ==
    { c \in AllCells :
        /\ c[1] < Len(data.anomaly_data.values)
        /\ data.anomaly_data.values[c[1] + 1] # null
        /\ ValueOf(c) # undefined }

\* The rects at the place of cell c: x = j * 800 / W, y = i * 600 / H.
RectsAt(c) ==
    { k \in 1..Len(points) :
        /\ points[k].x = Rat(c[2] * 800, Len(data.anomaly_data.lons))
        /\ points[k].y = Rat(c[1] * 600, Len(data.anomaly_data.lats)) }

\* Rects k and m share no inner point.
Apart(k, m) ==
    \/ JsLe(JsAdd(points[k].x, points[k].width), points[m].x)
    \/ JsLe(JsAdd(points[m].x, points[m].width), points[k].x)
    \/ JsLe(JsAdd(points[k].y, points[k].height), points[m].y)
    \/ JsLe(JsAdd(points[m].y, points[m].height), points[k].y)

\* C26: a run of testAPI ends with the status 'Data loaded successfully!'
\* and the grid drawn, or with a status 'Error: <message>'; the svg is
\* drawn to only after the response was ok and parsed; a drawn grid has
\* exactly one rect per cell that passes the data check, at x = j*800/W,
\* y = i*600/H, of size 800/W by 600/H, inside the 800 x 600 canvas and
\* apart from every other rect; a run in which drawSimpleMap threw ends
\* with an 'Error: ...' status.
C26_TestPageOutcome ==
    /\ view = "test" => (requests # << >> /\ requests[1].status = "ok")
    /\ tpc = "done" =>
          /\ \/ tstatus = StatusText("", "Data loaded successfully!") /\ view = "test" /\ ttitle
             \/ tstatus.prefix = "Error: "
          /\ (view = "test" /\ ~ttitle) => tstatus.prefix = "Error: "
          /\ ttitle =>
                /\ Len(points) = Cardinality(DrawnCells)
                /\ \A c \in DrawnCells :
                       /\ Cardinality(RectsAt(c)) = 1
                       /\ \A k \in RectsAt(c) :
                              /\ points[k].width = Rat(800, Len(data.anomaly_data.lons))
                              /\ points[k].height = Rat(600, Len(data.anomaly_data.lats))
                /\ \A k \in 1..Len(points) :
                       /\ JsLe(Int2Num(0), points[k].x)
                       /\ JsLe(JsAdd(points[k].x, points[k].width), Int2Num(800))
                       /\ JsLe(Int2Num(0), points[k].y)
                       /\ JsLe(JsAdd(points[k].y, points[k].height), Int2Num(600))
                /\ \A k \in 1..Len(points) : \A m \in 1..Len(points) :
                       k # m => Apart(k, m)

C26_Witness ==
    /\ tpc = "done"
    /\ tstatus = StatusText("", "Data loaded successfully!")
    /\ ttitle
    /\ data = Body(0)
    /\ Len(points) = 4
    /\ points[4].x = Int2Num(400) /\ points[4].y = Int2Num(300)
    /\ points[4].width = Int2Num(400) /\ points[4].height = Int2Num(300)

----------------------------------------------------------------------------
(* Claims about the classifiers (checked under SpecClassify).              *)

Zero == Int2Num(0)
One == Int2Num(1)

\* C5: with min_anomaly = max_anomaly every classifier gives the middle
\* (neutral) bucket to every value, whether equal to, below or above
\* min_anomaly.
C5_DegenerateRangeIsNeutral ==
    (Classified /\ cmin = cmax) =>
        \A s \in 1..2 :
            /\ cbucket[s].v1 = 3
            /\ cbucket[s].v2 = 2
            /\ cbucket[s].canvas = 2

\* Number of the thresholds 0.2, 0.4, 0.6, 0.8 that are <= n.
ThresholdsAtMost(n) == Cardinality({ t \in {2, 4, 6, 8} : JsLe(Rat(t, 10), n) })

\* C8: each 5-bucket classifier places a (finite) normalized value n in
\* bucket k, where k is the number of thresholds of [0.2, 0.4, 0.6, 0.8]
\* that are <= n; a value equal to a threshold goes to the bucket above it.
C8_BucketIsThresholdCount ==
    Classified =>
        \A s \in 1..2 :
            IsFinite(cnorm[s]) =>
                /\ cbucket[s].canvas = ThresholdsAtMost(cnorm[s])
                /\ cbucket[s].v2 = ThresholdsAtMost(cnorm[s])

\* C9: every normalized value gets exactly one bucket of its classifier's
\* scale, and a <= b implies bucket(a) <= bucket(b), in all three classifiers.
C9_TotalAndMonotonic ==
    Classified =>
        /\ \A s \in 1..2 :
            /\ cbucket[s].v1 \in 0..6
            /\ cbucket[s].v2 \in 0..4
            /\ cbucket[s].canvas \in 0..4
        /\ JsLe(cnorm[1], cnorm[2]) =>
            /\ cbucket[1].v1 <= cbucket[2].v1
            /\ cbucket[1].v2 <= cbucket[2].v2
            /\ cbucket[1].canvas <= cbucket[2].canvas

C9_Witness ==
    /\ Classified
    /\ JsLt(cnorm[1], Zero) /\ JsGt(cnorm[2], One)
    /\ cbucket[1].v1 = 0 /\ cbucket[2].v1 = 6
    /\ cbucket[1].v2 = 0 /\ cbucket[2].v2 = 4

\* C10: with min_anomaly < max_anomaly, normalized is 0 at value =
\* min_anomaly (coldest bucket), 1 at value = max_anomaly (hottest bucket),
\* 0.5 for min = -5, max = 5, value = 0, and within [0, 1] for every value
\* between min_anomaly and max_anomaly.
C10_NormalizationRange ==
    (Classified /\ cmin < cmax) =>
        /\ cval = cmin =>
            /\ cnorm[1] = Zero
            /\ cbucket[1] = [v1 |-> 0, v2 |-> 0, canvas |-> 0]
        /\ cval = cmax =>
            /\ cnorm[1] = One
            /\ cbucket[1] = [v1 |-> 6, v2 |-> 4, canvas |-> 4]
        /\ (cmin = 0 - 5 /\ cmax = 5 /\ cval = 0) => cnorm[1] = Rat(1, 2)
        /\ (cmin <= cval /\ cval <= cmax) =>
            /\ JsLe(Zero, cnorm[1])
            /\ JsLe(cnorm[1], One)

C10_Witness ==
    /\ Classified
    /\ cmin = 0 - 5 /\ cmax = 5 /\ cval = 0 /\ cval2 = 5
    /\ cnorm = << Rat(1, 2), One >>
    /\ cbucket[2].v1 = 6

\* C25: the two 5-bucket classifiers agree: for every normalized value,
\* the thresholds 0.2, 0.4, 0.6, 0.8 and NaN included, the second App's
\* colour chain and getTemperatureColor choose the same bucket index.
C25_FiveBucketClassifiersAgree ==
    Classified => \A s \in 1..2 : cbucket[s].v2 = cbucket[s].canvas

====
